---- MODULE Spec2Model ----
(***************************************************************************)
(* A model of task.py: the Flask handler index() that turns one form      *)
(* submission into an investment report (four calls of the text           *)
(* generator, a regular-expression extraction, a content hash) and the    *)
(* JSON file store behind save_report / load_reports.                      *)
(*                                                                         *)
(* Texts the generator returns are sequences of one-character strings, so  *)
(* that the regular expression of line 194 and str.strip() are computed    *)
(* character by character.  Form values are opaque strings.                *)
(***************************************************************************)
EXTENDS Integers, Sequences, FiniteSets, TLC

\* ------------------------------------------------------------------ bounds

\* The generated texts the extraction is applied to on its own are
\* concatenations of at most MaxChunks chunks of Chunks.
MaxChunks == 3

\* POST requests accepted in one behaviour.
MaxPosts == 3

\* ------------------------------------------------------------------ values

\* Python values: None, and a str with its characters.  Every value that may
\* be None is held in this form.  The characters of a form value are a string
\* of the model; those of a generated text, which the regular expression
\* reads, are a sequence of one-character strings.
None == [py |-> "None"]
Str(chars) == [py |-> "str", chars |-> chars]

\* The worker threads of the development server (app.run, threaded).
Threads == {"t1", "t2"}

\* ------------------------------------------------------ characters and text

Upper == {"I", "N"}
Lower == {"n", "s", "t", "r", "u", "c", "i", "o", "b"}
Space == {" ", "\n"}

\* The literal of the first alternative of the pattern, line 194.
InstructionsLit == <<"I", "n", "s", "t", "r", "u", "c", "t", "i", "o", "n", "s", ":">>

\* lit occurs in text at position p (1-based).
LiteralAt(text, p, lit) ==
    /\ p + Len(lit) - 1 <= Len(text)
    /\ \A i \in 1..Len(lit) : text[p + i - 1] = lit[i]

\* 1\.
NumberedAt(text, p) ==
    /\ p + 1 <= Len(text)
    /\ text[p] = "1"
    /\ text[p + 1] = "."

\* [A-Z][a-z]+\s*:
CapWordColonAt(text, p) ==
    /\ p <= Len(text)
    /\ text[p] \in Upper
    /\ \E n \in 1..Len(text) : \E m \in 0..Len(text) :
          /\ p + n + m + 1 <= Len(text)
          /\ \A i \in 1..n : text[p + i] \in Lower
          /\ \A j \in 1..m : text[p + n + j] \in Space
          /\ text[p + n + m + 1] = ":"

\* The second group of the pattern, (Instructions:|1\.|[A-Z][a-z]+\s*:),
\* matches at p.
BoundaryAt(text, p) ==
    \/ LiteralAt(text, p, InstructionsLit)
    \/ NumberedAt(text, p)
    \/ CapWordColonAt(text, p)

Boundaries(text) == {p \in 1..Len(text) : BoundaryAt(text, p)}

Max(S) == CHOOSE x \in S : \A y \in S : y <= x
Min(S) == CHOOSE x \in S : \A y \in S : x <= y

\* The match a lazy first group, (.*?), would find.
re_search_lazy(text) ==
    IF Boundaries(text) = {} THEN [match |-> FALSE]
    ELSE [match |-> TRUE, group1 |-> SubSeq(text, 1, Min(Boundaries(text)) - 1)]

\* re.search(r"(.*)(...)", text, re.DOTALL): no match, or the match's group(1).
\* The search starts at offset 0, where the greedy (.*) first takes the whole
\* text (DOTALL: line breaks too) and gives characters back one at a time
\* until the second group matches: the match found is the one whose second
\* group starts at the LAST boundary of the text.
re_search(text) ==
    IF Boundaries(text) = {} THEN [match |-> FALSE]
    ELSE [match |-> TRUE, group1 |-> SubSeq(text, 1, Max(Boundaries(text)) - 1)]

RECURSIVE lstrip(_)
lstrip(text) ==
    IF text # <<>> /\ Head(text) \in Space THEN lstrip(Tail(text)) ELSE text

RECURSIVE rstrip(_)
rstrip(text) ==
    IF text # <<>> /\ text[Len(text)] \in Space
    THEN rstrip(SubSeq(text, 1, Len(text) - 1))
    ELSE text

\* str.strip()
strip(text) == rstrip(lstrip(text))

\* Lines 194-195: match.group(1).strip() if match else text.strip()
extract_portfolio_summary(text) ==
    LET match == re_search(text)
    IN  IF match.match THEN strip(match.group1) ELSE strip(text)

\* ------------------------------------------------------------------ prompts

\* A template is a sequence of parts: fixed text, or a {placeholder}.
Lit(text) == [lit |-> text]
Var(name) == [var |-> name]

ConservativeNote == "Given the client's conservative risk tolerance, the focus is on capital preservation and low-risk investments."
AggressiveNote == "Given the client's aggressive risk tolerance, the focus is on high-growth investments with higher risk."
ModerateNote == "Given the client's moderate risk tolerance, the portfolio is balanced between growth and stability."
RiskNotes == {ConservativeNote, AggressiveNote, ModerateNote}

SecNote == "This report complies with SEC regulations, including disclosures on risk and performance."
MifidNote == "This report complies with MiFID II regulations, including disclosures on costs, risks, and performance."
StandardNote == "This report includes standard risk and performance disclosures."
ComplianceNotes == {SecNote, MifidNote, StandardNote}

\* dict.get(key, default)
dict_get(d, key, default) == IF key \in DOMAIN d THEN d[key] ELSE default

\* A risk note chosen with the first two branches exchanged.
risk_note_swapped(risk_tolerance) ==
    IF risk_tolerance = Str("aggressive") THEN ConservativeNote
    ELSE IF risk_tolerance = Str("conservative") THEN AggressiveNote
    ELSE ModerateNote

\* Lines 60-65.
risk_note(risk_tolerance) ==
    IF risk_tolerance = Str("conservative") THEN ConservativeNote
    ELSE IF risk_tolerance = Str("aggressive") THEN AggressiveNote
    ELSE ModerateNote

\* Lines 57-93.
get_portfolio_summary_prompt(client_profile) ==
    LET risk_tolerance == dict_get(client_profile, "risk_tolerance", Str("moderate"))
    IN  [input_variables |->
            {"portfolio_name", "client_profile", "benchmark", "asset_allocation",
             "return_net", "return_benchmark", "risk_metrics", "top_holdings",
             "underperforming_holdings", "date_range"},
         template |->
            << Lit("Provide a detailed portfolio performance summary for"),
               Var("date_range"),
               Lit("Portfolio Name:"), Var("portfolio_name"),
               Lit("Client Profile:"), Var("client_profile"),
               Lit("Benchmark:"), Var("benchmark"),
               Lit("Asset Allocation:"), Var("asset_allocation"),
               Lit("Net Return:"), Var("return_net"),
               Lit("(Benchmark Return:"), Var("return_benchmark"),
               Lit("Risk Metrics:"), Var("risk_metrics"),
               Lit("Top Holdings:"), Var("top_holdings"),
               Lit("Underperforming Holdings:"), Var("underperforming_holdings"),
               Lit(risk_note(risk_tolerance)),
               Lit("Instructions:"),
               Lit("- Clearly state how the portfolio performed relative to the benchmark."),
               Lit("- Identify key risk metrics and their impact on performance."),
               Lit("- Summarize the top-performing and underperforming assets."),
               Lit("- Provide a professional financial report summary.") >>]

\* Lines 96-110.
client_insights_prompt ==
    [input_variables |->
        {"client_profile", "portfolio_summary", "risk_metrics", "market_outlook"},
     template |->
        << Lit("Client Profile:"), Var("client_profile"),
           Lit("Portfolio Summary:"), Var("portfolio_summary"),
           Lit("Risk Metrics:"), Var("risk_metrics"),
           Lit("Market Outlook:"), Var("market_outlook"),
           Lit("Instructions:"),
           Lit("- Analyze the client's profile and portfolio performance."),
           Lit("- Provide insights tailored to the client's risk tolerance and investment goals."),
           Lit("- Highlight any significant risks or opportunities based on the market outlook."),
           Lit("- Avoid repeating information from the portfolio summary.") >>]

\* Lines 113-127.
recommendations_prompt ==
    [input_variables |->
        {"client_profile", "portfolio_summary", "risk_metrics", "market_outlook"},
     template |->
        << Lit("Client Profile:"), Var("client_profile"),
           Lit("Portfolio Summary:"), Var("portfolio_summary"),
           Lit("Risk Metrics:"), Var("risk_metrics"),
           Lit("Market Outlook:"), Var("market_outlook"),
           Lit("Instructions:"),
           Lit("- Provide actionable recommendations based on the client's profile and portfolio performance."),
           Lit("- Suggest adjustments to the portfolio if necessary."),
           Lit("- Include a forward-looking outlook based on the market conditions."),
           Lit("- Be specific and avoid generic advice.") >>]

\* Lines 131-136.
compliance_note(region) ==
    IF region = Str("US") THEN SecNote
    ELSE IF region = Str("EU") THEN MifidNote
    ELSE StandardNote

\* Lines 130-150.
get_disclosures_prompt(region) ==
    [input_variables |-> {"client_profile", "investment_products", "risk_metrics"},
     template |->
        << Lit("Client Profile:"), Var("client_profile"),
           Lit("Investment Products:"), Var("investment_products"),
           Lit("Risk Metrics:"), Var("risk_metrics"),
           Lit("Instructions:"),
           Lit("1. Provide standard risk disclosures. Be specific about the risks, including those related to the risk metrics."),
           Lit("2."), Lit(compliance_note(region)),
           Lit("3. Avoid including outdated or irrelevant information.") >>]

\* PromptTemplate.format(**kwargs): every placeholder replaced by the value
\* of its name in kwargs (names of kwargs the template does not use are
\* ignored).  index() passes a mapping that holds every placeholder's name.
format(prompt, kwargs) ==
    [i \in 1..Len(prompt.template) |->
        LET part == prompt.template[i]
        IN  IF "var" \in DOMAIN part THEN [val |-> kwargs[part.var]] ELSE part]

\* The fixed sentences of notes that a prompt holds.
NotesIn(template, notes) ==
    {i \in 1..Len(template) : "lit" \in DOMAIN template[i] /\ template[i].lit \in notes}

\* -------------------------------------------------------------------- store

\* REPORTS_FILE, line 16: no file, or a file with its bytes.  A file holds a
\* JSON document, or bytes json.load cannot parse: none at all (what
\* open(..., "w") leaves until the dump is flushed), or the output of two
\* writers laid over each other.
NoFile == [bytes |-> "absent"]
EmptyText == [bytes |-> "empty"]
Garbled == [bytes |-> "garbled"]
Document(value) == [bytes |-> "json", value |-> value]

\* json.dump of a value of the report: None is null, a str a string, a dict
\* an object of its members.
RECURSIVE json_encode(_)
json_encode(v) ==
    IF "py" \in DOMAIN v
    THEN IF v = None THEN [json |-> "null"] ELSE [json |-> "string", str |-> v]
    ELSE [json |-> "object", members |-> [k \in DOMAIN v |-> json_encode(v[k])]]

RECURSIVE json_decode(_)
json_decode(j) ==
    IF j.json = "null" THEN None
    ELSE IF j.json = "string" THEN j.str
    ELSE [k \in DOMAIN j.members |-> json_decode(j.members[k])]

\* json.dump(reports, f, indent=4), line 38: reports maps identifiers to reports.
json_dump(reports) ==
    Document([json |-> "object",
              members |-> [k \in DOMAIN reports |-> json_encode(reports[k])]])

\* json.load(f), lines 28 and 50: the mapping, or JSONDecodeError.
json_load(file) ==
    IF file.bytes = "json"
    THEN [raised |-> FALSE,
          value |-> [k \in DOMAIN file.value.members |->
                        json_decode(file.value.members[k])]]
    ELSE [raised |-> TRUE, exc |-> "JSONDecodeError"]

\* os.path.exists(REPORTS_FILE)
exists(file) == file # NoFile

\* hashlib.sha256(report_text.encode()).hexdigest(), lines 19-20: a str that
\* is a function of the text, taken to be free of collisions.
generate_report_id(report_text) == [py |-> "str", sha256 |-> report_text]

\* reports[report_id] = report_data, line 34.
dict_set(d, key, value) ==
    [k \in DOMAIN d \cup {key} |-> IF k = key THEN value ELSE d[k]]

\* Lines 46-54: the mapping of the file, and the empty mapping when there is
\* no file or it does not parse.
load_reports(file) ==
    IF exists(file)
    THEN IF json_load(file).raised THEN <<>> ELSE json_load(file).value
    ELSE <<>>

\* ------------------------------------------------------------------ inputs

FormFields ==
    {"portfolio_name", "client_name", "risk_tolerance", "investment_goals",
     "benchmark", "asset_allocation", "return_net", "return_benchmark",
     "risk_metrics", "top_holdings", "underperforming_holdings",
     "investment_products", "market_outlook", "date_range", "region"}

FullForm ==
    [f \in FormFields |->
        IF f = "risk_tolerance" THEN Str("aggressive")
        ELSE IF f = "region" THEN Str("EU")
        ELSE Str("x")]

Without(form, fields) == [f \in DOMAIN form \ fields |-> form[f]]

\* The form submissions of the model: a complete one, one that leaves the two
\* fields with defaults out, and ones with a required field absent or empty.
Forms ==
    { FullForm,
      Without(FullForm, {"risk_tolerance", "region"}),
      Without(FullForm, {"date_range"}),
      Without(FullForm, {"client_name"}),
      [FullForm EXCEPT !["portfolio_name"] = Str("")] }

\* The texts the generator returns in the model of the handler.  To the
\* summary prompt: one without a boundary that strip() shortens, or one with
\* a boundary.  To the three later prompts: one text.
SummaryTexts ==
    { <<"b", " ">>,
      <<"n", " ", "N", "b", ":", "b">> }

SectionTexts == { <<"b", " ">> }

\* ------------------------------------------------------------------- state

VARIABLES
    reports_file,   \* the file REPORTS_FILE names
    pc,             \* where each thread is in index()
    frame,          \* the locals of index() and save_report() of each thread
    calls,          \* what each thread's request has called so far: the
                    \* generator (with the prompt and what it returned) and
                    \* save_report (with its argument)
    posts,          \* POST requests accepted so far
    loaded,         \* whether load_reports() was called, and what the last
                    \* call returned
    probe           \* the input and the result of a function applied on its own

vars == <<reports_file, pc, frame, calls, posts, loaded, probe>>

\* Lines 156-157, and the locals not bound yet.
NoFrame ==
    [input_data |-> None, portfolio_summary |-> None, client_insights |-> None,
     recommendations |-> None, disclosures |-> None, report_id |-> None,
     reports |-> <<>>, report |-> None]

NoProbe == [at |-> "off"]

\* ----------------------------------------------------------------- index()

\* request.form.get(key, default)
form_get(form, key, default) == dict_get(form, key, default)

\* Lines 162-180.
build_input_data(form) ==
    [k \in (FormFields \ {"client_name", "risk_tolerance", "investment_goals"})
           \cup {"client_profile"} |->
        IF k = "client_profile"
        THEN [name |-> form_get(form, "client_name", None),
              risk_tolerance |-> form_get(form, "risk_tolerance", Str("moderate")),
              investment_goals |-> form_get(form, "investment_goals", None)]
        ELSE IF k = "region" THEN form_get(form, "region", Str("US"))
        ELSE form_get(form, k, None)]

\* The truth value of a form value: None and the empty string are false.
truthy(v) == v # None /\ v # Str("")

\* A validation that forgets date_range.
required_present_two(input_data) ==
    /\ truthy(input_data["portfolio_name"])
    /\ truthy(input_data["client_profile"]["name"])

\* Line 186.
required_present(input_data) ==
    /\ truthy(input_data["portfolio_name"])
    /\ truthy(input_data["client_profile"]["name"])
    /\ truthy(input_data["date_range"])

\* Line 238: the error fragment made of the exception.
error_report(exc) == [py |-> "str", html |-> "error", exc |-> exc]

IsError(report) == report # None /\ report.html = "error"
IsReport(report) == report # None /\ report.html = "report"

\* Line 210.
report_text(f) ==
    f.portfolio_summary.chars \o <<"\n">> \o f.client_insights.chars \o <<"\n">>
        \o f.recommendations.chars \o <<"\n">> \o f.disclosures.chars

\* Lines 214-221.
report_data(f) ==
    [report_id |-> f.report_id,
     portfolio_summary |-> f.portfolio_summary,
     client_insights |-> f.client_insights,
     recommendations |-> f.recommendations,
     disclosures |-> f.disclosures,
     input_data |-> f.input_data]

\* Lines 225-236.
html_report(f) ==
    [py |-> "str", html |-> "report",
     portfolio_name |-> f.input_data["portfolio_name"],
     date_range |-> f.input_data["date_range"],
     report_id |-> f.report_id,
     portfolio_summary |-> f.portfolio_summary,
     client_insights |-> f.client_insights,
     recommendations |-> f.recommendations,
     disclosures |-> f.disclosures]

\* One call of generator(prompt, max_length=1000), as the request's log has it.
Generated(prompt, text) == [op |-> "generator", prompt |-> prompt, raised |-> FALSE, text |-> text]
GeneratorRaised(prompt) == [op |-> "generator", prompt |-> prompt, raised |-> TRUE]
SaveCalled(data) == [op |-> "save_report", report_data |-> data]

\* The step of thread t: its locals become f, it goes on at label, and its
\* request has called what events lists.
Step(t, f, label, events) ==
    /\ frame' = [frame EXCEPT ![t] = f]
    /\ pc' = [pc EXCEPT ![t] = label]
    /\ calls' = [calls EXCEPT ![t] = @ \o events]

\* Lines 237-238: the except clause of index().
Except(t, exc, events) ==
    Step(t, [frame[t] EXCEPT !.report = error_report(exc)], "render", events)

\* Lines 154-187 of a POST: the input mapping and its validation.
Post(t) ==
    /\ pc[t] = "idle"
    /\ posts < MaxPosts
    /\ posts' = posts + 1
    /\ \E form \in Forms :
          LET input_data == build_input_data(form)
              f == [NoFrame EXCEPT !.input_data = input_data]
          IN  IF required_present(input_data)
              THEN Step(t, f, "gen_summary", <<>>)
              ELSE Step(t, [f EXCEPT !.report = error_report("ValueError")],
                        "render", <<>>)
    /\ UNCHANGED <<reports_file, loaded, probe>>

\* Lines 154-159 and 240 of a GET: nothing but the page.
Get(t) ==
    /\ pc[t] = "idle"
    /\ Step(t, NoFrame, "done", <<>>)
    /\ UNCHANGED <<reports_file, posts, loaded, probe>>

\* Lines 189-197 with the generated text, not the extracted summary, put into
\* the input mapping.
GenSummary_raw(t) ==
    /\ pc[t] = "gen_summary"
    /\ LET f == frame[t]
           prompt == format(get_portfolio_summary_prompt(f.input_data["client_profile"]),
                            f.input_data)
       IN  \/ \E text \in SummaryTexts :
                 Step(t, [f EXCEPT !.portfolio_summary = Str(extract_portfolio_summary(text)),
                                   !.input_data = dict_set(@, "portfolio_summary", Str(text))],
                      "gen_insights", <<Generated(prompt, Str(text))>>)
           \/ Except(t, "GeneratorError", <<GeneratorRaised(prompt)>>)
    /\ UNCHANGED <<reports_file, posts, loaded, probe>>

\* Lines 189-197: the summary prompt, the first call of the generator, the
\* extraction, and the summary put into the input mapping.
GenSummary(t) ==
    /\ pc[t] = "gen_summary"
    /\ LET f == frame[t]
           prompt == format(get_portfolio_summary_prompt(f.input_data["client_profile"]),
                            f.input_data)
       IN  \/ \E text \in SummaryTexts :
                 LET portfolio_summary == Str(extract_portfolio_summary(text))
                 IN  Step(t, [f EXCEPT !.portfolio_summary = portfolio_summary,
                                       !.input_data = dict_set(@, "portfolio_summary",
                                                               portfolio_summary)],
                          "gen_insights", <<Generated(prompt, Str(text))>>)
           \/ Except(t, "GeneratorError", <<GeneratorRaised(prompt)>>)
    /\ UNCHANGED <<reports_file, posts, loaded, probe>>

\* Lines 199-200.
GenInsights(t) ==
    /\ pc[t] = "gen_insights"
    /\ LET f == frame[t]
           prompt == format(client_insights_prompt, f.input_data)
       IN  \/ \E text \in SectionTexts :
                 Step(t, [f EXCEPT !.client_insights = Str(text)],
                      "gen_recommendations", <<Generated(prompt, Str(text))>>)
           \/ Except(t, "GeneratorError", <<GeneratorRaised(prompt)>>)
    /\ UNCHANGED <<reports_file, posts, loaded, probe>>

\* Lines 202-203.
GenRecommendations(t) ==
    /\ pc[t] = "gen_recommendations"
    /\ LET f == frame[t]
           prompt == format(recommendations_prompt, f.input_data)
       IN  \/ \E text \in SectionTexts :
                 Step(t, [f EXCEPT !.recommendations = Str(text)],
                      "gen_disclosures", <<Generated(prompt, Str(text))>>)
           \/ Except(t, "GeneratorError", <<GeneratorRaised(prompt)>>)
    /\ UNCHANGED <<reports_file, posts, loaded, probe>>

\* Lines 205-211 with a failure of the fourth call swallowed: the report is
\* saved with no disclosures.
GenDisclosures_swallow(t) ==
    /\ pc[t] = "gen_disclosures"
    /\ LET f == frame[t]
           prompt == format(get_disclosures_prompt(f.input_data["region"]), f.input_data)
       IN  \/ \E text \in SectionTexts :
                 LET g == [f EXCEPT !.disclosures = Str(text)]
                 IN  Step(t, [g EXCEPT !.report_id = generate_report_id(report_text(g))],
                          "save_report", <<Generated(prompt, Str(text))>>)
           \/ LET g == [f EXCEPT !.disclosures = Str(<<>>)]
              IN  Step(t, [g EXCEPT !.report_id = generate_report_id(report_text(g))],
                       "save_report", <<GeneratorRaised(prompt)>>)
    /\ UNCHANGED <<reports_file, posts, loaded, probe>>

\* Lines 205-211: the fourth call, then the report text and its identifier.
GenDisclosures(t) ==
    /\ pc[t] = "gen_disclosures"
    /\ LET f == frame[t]
           prompt == format(get_disclosures_prompt(f.input_data["region"]), f.input_data)
       IN  \/ \E text \in SectionTexts :
                 LET g == [f EXCEPT !.disclosures = Str(text)]
                 IN  Step(t, [g EXCEPT !.report_id = generate_report_id(report_text(g))],
                          "save_report", <<Generated(prompt, Str(text))>>)
           \/ Except(t, "GeneratorError", <<GeneratorRaised(prompt)>>)
    /\ UNCHANGED <<reports_file, posts, loaded, probe>>

\* save_report without line 34: the mapping read is written back as it is.
SaveRead_no_insert(t) ==
    /\ pc[t] = "save_report"
    /\ LET f == frame[t]
           data == report_data(f)
           read == IF exists(reports_file) THEN json_load(reports_file)
                   ELSE [raised |-> FALSE, value |-> <<>>]
       IN  IF read.raised
           THEN Except(t, read.exc, <<SaveCalled(data)>>)
           ELSE Step(t, [f EXCEPT !.reports = read.value],
                     "save_open", <<SaveCalled(data)>>)
    /\ UNCHANGED <<reports_file, posts, loaded, probe>>

\* save_report reading the file as load_reports does: a file that does not
\* parse counts as the empty mapping.
SaveRead_swallow(t) ==
    /\ pc[t] = "save_report"
    /\ LET f == frame[t]
           data == report_data(f)
       IN  Step(t, [f EXCEPT !.reports =
                        dict_set(load_reports(reports_file), data.report_id, data)],
                "save_open", <<SaveCalled(data)>>)
    /\ UNCHANGED <<reports_file, posts, loaded, probe>>

\* Lines 214-222 and 23-34: save_report is called; it reads the whole file,
\* if there is one, and puts the report into the mapping.  A file that does
\* not parse raises, save_report prints and raises again (lines 41-43), and
\* index() catches it.
SaveRead(t) ==
    /\ pc[t] = "save_report"
    /\ LET f == frame[t]
           data == report_data(f)
           read == IF exists(reports_file) THEN json_load(reports_file)
                   ELSE [raised |-> FALSE, value |-> <<>>]
       IN  IF read.raised
           THEN Except(t, read.exc, <<SaveCalled(data)>>)
           ELSE Step(t, [f EXCEPT !.reports = dict_set(read.value, data.report_id, data)],
                     "save_open", <<SaveCalled(data)>>)
    /\ UNCHANGED <<reports_file, posts, loaded, probe>>

\* Line 37: open(REPORTS_FILE, "w") creates the file or cuts it to no bytes.
SaveOpen(t) ==
    /\ pc[t] = "save_open"
    /\ reports_file' = EmptyText
    /\ Step(t, frame[t], "save_dump", <<>>)
    /\ UNCHANGED <<posts, loaded, probe>>

\* A store written record by record: what another writer has written since
\* this one opened the file stays.
Written_per_record(file, reports) ==
    IF file = EmptyText THEN {json_dump(reports)}
    ELSE {json_dump([k \in DOMAIN load_reports(file) \cup DOMAIN reports |->
                        IF k \in DOMAIN reports THEN reports[k]
                        ELSE load_reports(file)[k]])}

\* What the file holds once this writer's bytes are written from offset 0 and
\* flushed: its document; or, when another writer has written since this one
\* opened the file, its document followed by whatever of the other's bytes
\* reaches beyond it, which depends on the two lengths.
Written(file, reports) ==
    IF file = EmptyText THEN {json_dump(reports)} ELSE {json_dump(reports), Garbled}

\* A save that writes the new report alone.
SaveDump_alone(t) ==
    /\ pc[t] = "save_dump"
    /\ \E bytes \in Written(reports_file,
                            dict_set(<<>>, frame[t].report_id, report_data(frame[t]))) :
          reports_file' = bytes
    /\ Step(t, [frame[t] EXCEPT !.report = html_report(frame[t])], "render", <<>>)
    /\ UNCHANGED <<posts, loaded, probe>>

\* Lines 38-40, the dump and the close, then lines 224-236, the report as HTML.
SaveDump(t) ==
    /\ pc[t] = "save_dump"
    /\ \E bytes \in Written(reports_file, frame[t].reports) : reports_file' = bytes
    /\ Step(t, [frame[t] EXCEPT !.report = html_report(frame[t])], "render", <<>>)
    /\ UNCHANGED <<posts, loaded, probe>>

\* Line 240: render_template("index.html", report=report, report_id=report_id).
Render(t) ==
    /\ pc[t] = "render"
    /\ Step(t, frame[t], "done", <<>>)
    /\ UNCHANGED <<reports_file, posts, loaded, probe>>

\* The response is sent and the thread is free for the next request.
Finish(t) ==
    /\ pc[t] = "done"
    /\ frame' = [frame EXCEPT ![t] = NoFrame]
    /\ pc' = [pc EXCEPT ![t] = "idle"]
    /\ calls' = [calls EXCEPT ![t] = <<>>]
    /\ UNCHANGED <<reports_file, posts, loaded, probe>>

NotLoaded == [called |-> FALSE]

\* Lines 46-54.  Nothing in task.py calls load_reports; it is the reader of
\* the store for whoever imports the module.
LoadReports ==
    /\ loaded' = [called |-> TRUE, value |-> load_reports(reports_file)]
    /\ loaded' # loaded
    /\ UNCHANGED <<reports_file, pc, frame, calls, posts, probe>>

\* ----------------------------------------------------------- specifications

\* No file yet, or a file of no bytes: what a process killed between
\* open(..., "w") and the dump of an earlier run leaves behind.
Init ==
    /\ reports_file \in {NoFile, EmptyText}
    /\ pc = [t \in Threads |-> "idle"]
    /\ frame = [t \in Threads |-> NoFrame]
    /\ calls = [t \in Threads |-> <<>>]
    /\ posts = 0
    /\ loaded = NotLoaded
    /\ probe = NoProbe

Handler(t) ==
    \/ Post(t)
    \/ Get(t)
    \/ GenSummary(t)
    \/ GenInsights(t)
    \/ GenRecommendations(t)
    \/ GenDisclosures(t)
    \/ SaveRead(t)
    \/ SaveOpen(t)
    \/ SaveDump(t)
    \/ Render(t)
    \/ Finish(t)

\* The threaded server: requests interleave at every call of the generator
\* and at every operation on the file.
Next == \E t \in Threads : Handler(t)

Spec == Init /\ [][Next]_vars

\* One request at a time: a thread moves only while every other is idle, and
\* the store is read only between requests.
Sequential(t) == \A u \in Threads \ {t} : pc[u] = "idle"

NextSeq ==
    \/ \E t \in Threads :
          \/ Sequential(t) /\ Post(t)
          \/ Sequential(t) /\ Get(t)
          \/ Sequential(t) /\ GenSummary(t)
          \/ Sequential(t) /\ GenInsights(t)
          \/ Sequential(t) /\ GenRecommendations(t)
          \/ Sequential(t) /\ GenDisclosures(t)
          \/ Sequential(t) /\ SaveRead(t)
          \/ Sequential(t) /\ SaveOpen(t)
          \/ Sequential(t) /\ SaveDump(t)
          \/ Sequential(t) /\ Render(t)
          \/ Sequential(t) /\ Finish(t)
    \/ (\A t \in Threads : pc[t] \in {"idle", "done"}) /\ LoadReports

SpecSeq == Init /\ [][NextSeq]_vars

\* ---------------------------------------- the functions applied on their own

\* The pieces generated texts are made of: plain characters, white space,
\* a colon, and the three kinds of boundary.
Chunks ==
    { <<"b">>, <<"N">>, <<" ">>, <<"\n">>, <<":">>, <<"1", ".">>,
      <<"N", "b", ":">>, InstructionsLit }

RECURSIVE TextsOf(_)
TextsOf(n) ==
    IF n = 0 THEN {<<>>}
    ELSE TextsOf(n - 1) \cup {t \o c : t \in TextsOf(n - 1), c \in Chunks}

Texts == TextsOf(MaxChunks)

\* Values of risk_tolerance and region: the ones the code names, and others.
RiskValues ==
    {Str("conservative"), Str("aggressive"), Str("moderate"), Str("Aggressive"),
     Str(""), None}
RegionValues == {Str("US"), Str("EU"), Str("eu"), Str("UK"), Str(""), None}

\* Client profiles, with and without the key risk_tolerance.
ClientProfiles ==
    {[name |-> Str("x"), investment_goals |-> Str("x")]}
    \cup {[name |-> Str("x"), risk_tolerance |-> r, investment_goals |-> Str("x")] :
            r \in RiskValues}

\* Lines 194-195 applied to a generated text.
ProbeExtract ==
    /\ probe.at = "text"
    /\ probe' = [at |-> "extracted", text |-> probe.text,
                 portfolio_summary |-> extract_portfolio_summary(probe.text)]
    /\ UNCHANGED <<reports_file, pc, frame, calls, posts, loaded>>

\* Lines 190-191 and 206-207: the two prompts that depend on the input,
\* built and rendered.
ProbePrompts ==
    /\ probe.at = "profile"
    /\ LET input_data == [build_input_data(FullForm) EXCEPT
                              !["client_profile"] = probe.client_profile,
                              !["region"] = probe.region]
       IN  probe' = [at |-> "prompts",
                     client_profile |-> probe.client_profile,
                     region |-> probe.region,
                     portfolio_summary_prompt |->
                        format(get_portfolio_summary_prompt(probe.client_profile),
                               input_data),
                     disclosures_prompt |->
                        format(get_disclosures_prompt(probe.region), input_data)]
    /\ UNCHANGED <<reports_file, pc, frame, calls, posts, loaded>>

InitProbe ==
    /\ reports_file = NoFile
    /\ pc = [t \in Threads |-> "idle"]
    /\ frame = [t \in Threads |-> NoFrame]
    /\ calls = [t \in Threads |-> <<>>]
    /\ posts = 0
    /\ loaded = NotLoaded
    /\ probe \in {[at |-> "text", text |-> text] : text \in Texts}
           \cup {[at |-> "profile", client_profile |-> p, region |-> r] :
                   p \in ClientProfiles, r \in RegionValues}

NextProbe ==
    \/ ProbeExtract
    \/ ProbePrompts

SpecProbe == InitProbe /\ [][NextProbe]_vars

\* ------------------------------------------------------------------ claims

\* C7: the extracted summary is what precedes the FIRST boundary of the
\* generated text, stripped, and the stripped text when it has no boundary.
C7_FirstBoundaryWins ==
    probe.at = "extracted" =>
        probe.portfolio_summary =
            (IF re_search_lazy(probe.text).match
             THEN strip(re_search_lazy(probe.text).group1)
             ELSE strip(probe.text))

\* The note of notes that belongs to value: first, second or other.
NoteFor(value, first, second, notes) ==
    IF value = first THEN notes[1] ELSE IF value = second THEN notes[2] ELSE notes[3]

\* The one part of a rendered prompt that is a sentence of notes is note.
HoldsOnly(prompt, notes, note) ==
    /\ Cardinality(NotesIn(prompt, notes)) = 1
    /\ \A i \in NotesIn(prompt, notes) : prompt[i].lit = note

\* C9: the rendered summary prompt holds exactly one risk sentence, the
\* conservative one for "conservative", the aggressive one for "aggressive",
\* the moderate one for any other or no risk_tolerance; the rendered
\* disclosures prompt holds exactly one compliance sentence, the SEC one for
\* "US", the MiFID II one for "EU", the standard one otherwise.
C9_OneNotePerPrompt ==
    probe.at = "prompts" =>
        /\ HoldsOnly(probe.portfolio_summary_prompt, RiskNotes,
                     NoteFor(dict_get(probe.client_profile, "risk_tolerance", None),
                             Str("conservative"), Str("aggressive"),
                             <<ConservativeNote, AggressiveNote, ModerateNote>>))
        /\ HoldsOnly(probe.disclosures_prompt, ComplianceNotes,
                     NoteFor(probe.region, Str("US"), Str("EU"),
                             <<SecNote, MifidNote, StandardNote>>))

\* C9's case: an aggressive client of the EU, prompts rendered.
C9_Witness ==
    /\ probe.at = "prompts"
    /\ "risk_tolerance" \in DOMAIN probe.client_profile
    /\ probe.client_profile.risk_tolerance = Str("aggressive")
    /\ probe.region = Str("EU")
    /\ \E i \in DOMAIN probe.portfolio_summary_prompt :
          probe.portfolio_summary_prompt[i] = Lit(AggressiveNote)
    /\ \E i \in DOMAIN probe.disclosures_prompt :
          probe.disclosures_prompt[i] = Lit(MifidNote)

\* What the log of a request says.
GeneratorFailed(t) == \E i \in DOMAIN calls[t] : calls[t][i].op = "generator" /\ calls[t][i].raised
SaveWasCalled(t) == \E i \in DOMAIN calls[t] : calls[t][i].op = "save_report"
Responded(t) == pc[t] = "done"
Parseable(file) == exists(file) /\ ~json_load(file).raised
Unparseable(file) == exists(file) /\ json_load(file).raised

\* C1: a request one of whose four generator calls raised never calls
\* save_report and ends with the error; and the file changes only in steps
\* of a thread that is inside save_report, so such a request leaves the file
\* as it was.
C1_NoSaveAfterGeneratorFailure ==
    /\ [](\A t \in Threads :
             GeneratorFailed(t) =>
                /\ ~SaveWasCalled(t)
                /\ pc[t] \in {"render", "done"}
                /\ frame[t].report = error_report("GeneratorError"))
    /\ [][reports_file' # reports_file =>
             \E t \in Threads :
                /\ pc[t] \in {"save_open", "save_dump"}
                /\ pc'[t] # pc[t]
                /\ SaveWasCalled(t)
                /\ ~GeneratorFailed(t)]_vars

\* C1's case: the third of the four calls raised and the request was answered.
C1_Witness ==
    \E t \in Threads :
        /\ Responded(t)
        /\ Len(calls[t]) = 3
        /\ calls[t][3].op = "generator"
        /\ calls[t][3].raised
        /\ IsError(frame[t].report)

\* A required field of the input mapping is absent or empty.
MissingRequired(input_data) ==
    \E v \in {input_data["portfolio_name"], input_data["client_profile"]["name"],
              input_data["date_range"]} :
        v \in {None, Str("")}

InRequest(t) == frame[t].input_data # None

\* C2: a POST without portfolio_name, client_name or date_range goes straight
\* to the error message: it calls neither the generator nor save_report, and
\* never is at a label where the file is read or written.
C2_ValidationFailsFirst ==
    \A t \in Threads :
        (InRequest(t) /\ MissingRequired(frame[t].input_data)) =>
            /\ calls[t] = <<>>
            /\ pc[t] \in {"render", "done"}
            /\ frame[t].report = error_report("ValueError")
            /\ frame[t].report_id = None

\* C2's case: a request without date_range was answered.
C2_Witness ==
    \E t \in Threads :
        /\ Responded(t)
        /\ InRequest(t)
        /\ frame[t].input_data["date_range"] = None
        /\ IsError(frame[t].report)

\* C3: a response whose report is an error message has no report_id.
C3_ErrorHasNoReportId ==
    \A t \in Threads :
        (Responded(t) /\ IsError(frame[t].report)) => frame[t].report_id = None

\* The record the store of the file holds under id, if any.
Store(file) == load_reports(file)

\* Lines 210-211 over a stored record.
TextOf(record) ==
    record.portfolio_summary.chars \o <<"\n">> \o record.client_insights.chars
        \o <<"\n">> \o record.recommendations.chars \o <<"\n">> \o record.disclosures.chars

\* What save_report wrote is the mapping it built, whole.
WroteItsMapping(t) ==
    (pc[t] \in {"render", "done"} /\ IsReport(frame[t].report)) =>
        /\ Parseable(reports_file)
        /\ Store(reports_file) = frame[t].reports

\* C4 as claimed: one request at a time, the mapping save_report is about to
\* write holds every record of the store unchanged, and that mapping is what
\* the file holds afterwards.
C4_StoredReportImmutable ==
    \A t \in Threads :
        /\ pc[t] = "save_open" =>
              \A id \in DOMAIN Store(reports_file) :
                 /\ id \in DOMAIN frame[t].reports
                 /\ frame[t].reports[id] = Store(reports_file)[id]
        /\ WroteItsMapping(t)

\* C4 as amended: one request at a time, the mapping save_report is about to
\* write holds every identifier of the store, each with a record of that
\* identifier and of the same report text; only the record under the new
\* report's identifier may differ from the stored one; and that mapping is
\* what the file holds afterwards.
C4_StoredReportKeepsItsText ==
    \A t \in Threads :
        /\ pc[t] = "save_open" =>
              \A id \in DOMAIN Store(reports_file) :
                 /\ id \in DOMAIN frame[t].reports
                 /\ frame[t].reports[id].report_id = id
                 /\ generate_report_id(TextOf(frame[t].reports[id])) = id
                 /\ TextOf(frame[t].reports[id]) = TextOf(Store(reports_file)[id])
                 /\ id # frame[t].report_id =>
                       frame[t].reports[id] = Store(reports_file)[id]
        /\ WroteItsMapping(t)

\* C4's case: save_report has read a store that holds the new report's
\* identifier with another input mapping, and is about to write.
C4_Witness ==
    \E t \in Threads :
        /\ pc[t] = "save_open"
        /\ frame[t].report_id \in DOMAIN Store(reports_file)
        /\ Store(reports_file)[frame[t].report_id].input_data # frame[t].input_data
        /\ Cardinality(DOMAIN Store(reports_file)) = 2

\* The save_report of t's request returned without raising.
Saved(t) == pc[t] \in {"render", "done"} /\ IsReport(frame[t].report)

\* C5: the file is written whole.  When the save_report calls of two
\* requests in flight have both returned, the file holds the whole mapping
\* one of the two wrote, built from what that one had read, or the bytes of
\* both laid over each other; never the two mappings merged record by
\* record.  So a report is in the store only if the last writer had read it
\* or is its author.
C5_LastWriterWinsWholeFile ==
    \A t, u \in Threads :
        (t # u /\ Saved(t) /\ Saved(u)) =>
            \/ reports_file = Garbled
            \/ /\ Parseable(reports_file)
               /\ \E w \in {t, u} : Store(reports_file) = frame[w].reports

\* C5's case: both saves returned without error, and the store holds the
\* report of one request and not the report of the other.
C5_Witness ==
    \E t, u \in Threads :
        /\ t # u
        /\ Saved(t)
        /\ Saved(u)
        /\ Parseable(reports_file)
        /\ frame[t].report_id \in DOMAIN Store(reports_file)
        /\ frame[u].report_id \notin DOMAIN Store(reports_file)

\* C6: one request at a time, after a save_report that returned, load_reports
\* returns a mapping that holds the report's identifier, and the record
\* there has the four section texts of the report.
C6_SaveThenLoad ==
    \A t \in Threads :
        Saved(t) =>
            LET reports == load_reports(reports_file)
                f == frame[t]
            IN  /\ f.report_id \in DOMAIN reports
                /\ reports[f.report_id].portfolio_summary = f.portfolio_summary
                /\ reports[f.report_id].client_insights = f.client_insights
                /\ reports[f.report_id].recommendations = f.recommendations
                /\ reports[f.report_id].disclosures = f.disclosures

\* C6's case: a report was saved into a store that held another one, and
\* load_reports was called after it.
C6_Witness ==
    \E t \in Threads :
        /\ Saved(t)
        /\ loaded.called
        /\ loaded.value = Store(reports_file)
        /\ frame[t].report_id \in DOMAIN loaded.value
        /\ Cardinality(DOMAIN loaded.value) = 2

\* C8: a save_report that finds a file it cannot parse raises: the request
\* goes to the error message with the file as it was and nothing of its own
\* in it; and a load_reports of a file that does not parse returns the empty
\* mapping.
C8_UnparseableFile ==
    [][/\ \A t \in Threads :
             (pc[t] = "save_report" /\ pc'[t] # pc[t] /\ Unparseable(reports_file)) =>
                /\ pc'[t] = "render"
                /\ frame'[t].report = error_report("JSONDecodeError")
                /\ reports_file' = reports_file
       /\ (loaded' # loaded /\ Unparseable(reports_file)) =>
             loaded' = [called |-> TRUE, value |-> <<>>]]_vars

\* C8's case: a request ended with the error of the unparseable file, the
\* file is still unparseable, and load_reports was called on it.
C8_Witness ==
    \E t \in Threads :
        /\ Responded(t)
        /\ SaveWasCalled(t)
        /\ frame[t].report = error_report("JSONDecodeError")
        /\ Unparseable(reports_file)
        /\ loaded.called
        /\ loaded.value = <<>>

\* The input mapping as lines 162-180 built it: without portfolio_summary.
AsBuilt(input_data) == Without(input_data, {"portfolio_summary"})

\* C10: a request that ended with a report has made exactly five calls, in
\* this order: the generator with the summary prompt, with the insights
\* prompt, with the recommendations prompt, with the disclosures prompt, and
\* save_report.  The input mapping holds the summary extracted from the first
\* text; the insights and recommendations prompts are rendered with it; the
\* other three sections are the generated texts as they are; the identifier
\* is that of the four sections joined by line breaks.
C10_OrderOfSteps ==
    \A t \in Threads :
        Saved(t) =>
            LET c == calls[t]
                f == frame[t]
                summary == Str(extract_portfolio_summary(c[1].text.chars))
                before == AsBuilt(f.input_data)
                after == dict_set(before, "portfolio_summary", summary)
            IN  /\ Len(c) = 5
                /\ \A i \in 1..4 : c[i].op = "generator" /\ ~c[i].raised
                /\ c[5].op = "save_report"
                /\ c[1].prompt =
                      format(get_portfolio_summary_prompt(before["client_profile"]), before)
                /\ f.input_data = after
                /\ c[2].prompt = format(client_insights_prompt, after)
                /\ c[3].prompt = format(recommendations_prompt, after)
                /\ c[4].prompt = format(get_disclosures_prompt(before["region"]), after)
                /\ c[5].report_data =
                      [report_id |->
                          generate_report_id(summary.chars \o <<"\n">> \o c[2].text.chars
                              \o <<"\n">> \o c[3].text.chars \o <<"\n">> \o c[4].text.chars),
                       portfolio_summary |-> summary,
                       client_insights |-> c[2].text,
                       recommendations |-> c[3].text,
                       disclosures |-> c[4].text,
                       input_data |-> after]
                /\ f.report_id = c[5].report_data.report_id

\* C10's case: a request ended with a report whose summary is not the text
\* the generator returned.
C10_Witness ==
    \E t \in Threads :
        /\ Responded(t)
        /\ IsReport(frame[t].report)
        /\ calls[t][1].text # frame[t].portfolio_summary
        /\ calls[t][1].text.chars # strip(calls[t][1].text.chars)
        /\ \E i \in DOMAIN calls[t][2].prompt :
              calls[t][2].prompt[i] = [val |-> frame[t].portfolio_summary]

====
